---- MODULE Spec2Model ----
(***************************************************************************)
(* Model of librelay/librelay.py: the LibRelay02 worker thread, its two    *)
(* queues, the serial handle and the calls a client thread can make on the *)
(* object (setup, start, quit, version, status, queue puts).               *)
(*                                                                         *)
(* Two execution contexts are modelled: "worker" (LibRelay02.run, started  *)
(* by Thread.start) and "caller" (the thread that owns the object).  The   *)
(* client calls setup() and quit() at most once each, in any order and at  *)
(* any time, and version() and status() any number of times.               *)
(*                                                                         *)
(* A descriptor on the input queue is read by nobody before the worker     *)
(* gets it, so the queue holds the ids of the descriptors, in put order,   *)
(* and the dict of a descriptor is drawn from Descrs when the worker gets  *)
(* it.                                                                     *)
(* Queue puts by producers are single atomic steps (queue.Queue is         *)
(* thread-safe).  Every blocking call on the serial handle is one step, so *)
(* that the two contexts interleave between write, sleep and read.         *)
(***************************************************************************)
EXTENDS Integers, Sequences, FiniteSets, TLC

(***************************************************************************)
(* Bounds of the model.                                                    *)
(***************************************************************************)
\* number of commands producers put on the input queue in one behaviour
MaxCmds == 2

(***************************************************************************)
(* Enums (librelay.py:15-43).                                              *)
(***************************************************************************)
APIAction == [UNKNOWN |-> 0, SET_STATE |-> 1, QUERY |-> 2]

\* a table with a copy-paste slip: ONE_ON carries the byte of ALL_OFF
RelayStatesDup ==
    [ALL_ON |-> 100, ALL_OFF |-> 110, ONE_ON |-> 110,
     ONE_OFF |-> 111, TWO_ON |-> 102, TWO_OFF |-> 112]

RelayStates ==
    [ALL_ON |-> 100, ALL_OFF |-> 110, ONE_ON |-> 101,
     ONE_OFF |-> 111, TWO_ON |-> 102, TWO_OFF |-> 112]

RelayQueries == [VERSION |-> 90, STATUS |-> 91]

StateNames == DOMAIN RelayStates
QueryNames == DOMAIN RelayQueries

(***************************************************************************)
(* Python values that travel through the model.  A value is a tagged       *)
(* record so that None, an int, a bytes object and a raised exception stay *)
(* distinct: k is the kind, v the payload as a sequence of integers.       *)
(***************************************************************************)
None == [k |-> "none", v |-> <<>>]
IntVal(n) == [k |-> "int", v |-> <<n>>]
BytesVal(b) == [k |-> "bytes", v |-> b]
Raised == [k |-> "raised", v |-> <<>>]

\* struct.pack('!B', value): one unsigned byte; struct.error outside 0..255
\* (modelled as the empty payload, which no caller of Pack produces here).
Pack(value) == IF value \in 0..255 THEN <<value>> ELSE <<>>

\* str.lower() on the content strings the model uses.
Lower(s) ==
    CASE s = "ALL_ON" -> "all_on"
      [] s = "ALL_OFF" -> "all_off"
      [] s = "ONE_ON" -> "one_on"
      [] s = "ONE_OFF" -> "one_off"
      [] s = "TWO_ON" -> "two_on"
      [] s = "TWO_OFF" -> "two_off"
      [] s = "VERSION" -> "version"
      [] s = "STATUS" -> "status"
      [] s = "QUIT" -> "quit"
      [] s = "RUN" -> "run"
      [] s = "START" -> "start"
      [] s = "BOGUS" -> "bogus"
      [] OTHER -> s

(***************************************************************************)
(* Attributes of a LibRelay02 instance that getattr can resolve.           *)
(* _populate_relay_states_apis installs one closure per RelayStates member *)
(* under member.name.lower(); version, status and quit are methods, and   *)
(* so are run and Thread.start.  (Of the attributes of the instance that   *)
(* are not protocol operations the model resolves quit, run and start;     *)
(* every other name is taken as one that getattr does not find.)           *)
(* An operation is [kind, byte, readn]: the byte it writes and the size of *)
(* the read that follows (0: no read).                                     *)
(***************************************************************************)
NoOp == [kind |-> "none", byte |-> 0, readn |-> 0]

\* closures that all see the last value of the loop variable (what the
\* factory __make_command_fct prevents)
StateApisLateBinding ==
    [n \in {Lower(m) : m \in StateNames} |->
        [kind |-> "state", byte |-> RelayStates.TWO_OFF, readn |-> 0]]

StateApis ==
    [n \in {Lower(m) : m \in StateNames} |->
        LET member == CHOOSE m \in StateNames : Lower(m) = n
        IN  [kind |-> "state", byte |-> RelayStates[member], readn |-> 0]]

\* version() reading the size status() reads
VersionOpShortRead ==
    [kind |-> "version", byte |-> RelayQueries.VERSION, readn |-> 1]

VersionOp == [kind |-> "version", byte |-> RelayQueries.VERSION, readn |-> 2]
StatusOp == [kind |-> "status", byte |-> RelayQueries.STATUS, readn |-> 1]
QuitOp == [kind |-> "quit", byte |-> 0, readn |-> 0]
RunOp == [kind |-> "run", byte |-> 0, readn |-> 0]
StartOp == [kind |-> "start", byte |-> 0, readn |-> 0]

\* getattr(self, name): NoOp stands for AttributeError.
GetAttr(name) ==
    IF name \in DOMAIN StateApis THEN StateApis[name]
    ELSE IF name = "version" THEN VersionOp
    ELSE IF name = "status" THEN StatusOp
    ELSE IF name = "quit" THEN QuitOp
    ELSE IF name = "run" THEN RunOp
    ELSE IF name = "start" THEN StartOp
    ELSE NoOp

(***************************************************************************)
(* Command descriptors.  A str is modelled as the sequence of its tokens,  *)
(* so that the substring test `name in command["action"]` is computed and  *)
(* not looked up.  t = "missing": the key is absent from the dict;         *)
(* t = "int": the value is not a str (an int, None, an APIAction member).  *)
(***************************************************************************)
StrAct(toks) == [t |-> "str", v |-> toks]
IntAct == [t |-> "int", v |-> <<>>]
NoAct == [t |-> "missing", v |-> <<>>]
StrContent(s) == [t |-> "str", s |-> s]
NoContent == [t |-> "missing", s |-> ""]

\* Python `needle in haystack` for a one-token needle and a str haystack.
Contains(needle, toks) == \E i \in 1..Len(toks) : toks[i] = needle

Descr(a, c) == [action |-> a, content |-> c]

\* The documented commands (docstring of _analyse, librelay.py:182-183).
ValidDescrs ==
    {Descr(StrAct(<<"SET_STATE">>), StrContent(s)) : s \in StateNames}
    \cup {Descr(StrAct(<<"QUERY">>), StrContent(q)) : q \in QueryNames}

\* Descriptors a producer can also put on the queue: the dict is unchecked.
OddDescrs ==
    {Descr(NoAct, StrContent("ALL_ON")),
     Descr(StrAct(<<"UNKNOWN">>), StrContent("ALL_ON")),
     Descr(IntAct, StrContent("ALL_ON")),
     Descr(StrAct(<<"NOT_", "SET_STATE">>), StrContent("ONE_ON")),
     Descr(StrAct(<<"SET_STATE">>), StrContent("BOGUS")),
     Descr(StrAct(<<"SET_STATE">>), NoContent),
     Descr(StrAct(<<"QUERY">>), StrContent("ALL_OFF")),
     Descr(StrAct(<<"SET_STATE">>), StrContent("STATUS")),
     Descr(StrAct(<<"SET_STATE">>), StrContent("QUIT")),
     Descr(StrAct(<<"SET_STATE">>), StrContent("RUN")),
     Descr(StrAct(<<"SET_STATE">>), StrContent("START"))}

Descrs == ValidDescrs \cup OddDescrs

\* What the serial port can answer.  Serial.write returns the number of bytes
\* written (blocking mode: all of them); Serial.read(size=n) returns n bytes
\* (no timeout is configured), here n copies of one of two byte values.
WriteResults == {1}
ByteVals == {1, 2}
ReadData(n) == {[i \in 1..n |-> b] : b \in ByteVals}

Ctx == {"worker", "caller"}

VARIABLES
    running,      \* self._running
    filedesc,     \* self._filedesc: "none" (None), "open", "closed"
    inq,          \* self._input_queue: ids of the queued descriptors
    outq,         \* history: ids of the commands whose res was put on
                  \* self._output_queue, in put order
    lastOut,      \* history: the last put on self._output_queue
    pc,           \* pc[ctx]: position of each context
    cur,          \* cur[ctx]: the operation a context is executing
    wcmd,         \* worker: local `command` of run
    wres,         \* worker: local `res` of run
    frames,       \* worker: the commands whose operation is run itself and
                  \* has not returned, outermost first
    taken,        \* history: ids the worker got from the input queue
    written,      \* history: ids of the commands for which the worker wrote
                  \* to the port, in write order
    nextId,       \* history: number of puts on the input queue
    lastDirect,   \* history: the client's last completed version()/status(),
                  \* kept until the client's next call
    setupRet,     \* history: what the client's setup() returned
    quitRet,      \* history: outcome of the client's quit()
    atQuit,       \* history: ids in the input queue when quit() was called
    purged        \* history: ids removed by __clear_queue

vars == <<running, filedesc, inq, outq, lastOut, pc, cur, wcmd, wres,
          frames, taken, written, nextId, lastDirect, setupRet, quitRet,
          atQuit, purged>>

NoCmd == [id |-> 0, action |-> NoAct, content |-> NoContent]
Idle == [op |-> NoOp, ops |-> <<>>, wret |-> None]

NoOut == [cmd |-> NoCmd, val |-> None, ops |-> <<>>]
NoDirect == [name |-> "none", ops |-> <<>>, ret |-> None]

WriteEv(data, r) == [op |-> "write", arg |-> data, ret |-> <<r>>]
ReadEv(n, data) == [op |-> "read", arg |-> <<n>>, ret |-> data]

\* LibRelay02.__init__, then set_input_queue / set_output_queue with two
\* fresh queues: the state in which the client starts to use the object.
Init ==
    /\ running = TRUE
    /\ filedesc = "none"
    /\ inq = <<>>
    /\ outq = <<>>
    /\ lastOut = NoOut
    /\ pc = [worker |-> "new", caller |-> "idle"]
    /\ cur = [worker |-> Idle, caller |-> Idle]
    /\ wcmd = NoCmd
    /\ wres = None
    /\ frames = <<>>
    /\ taken = <<>>
    /\ written = <<>>
    /\ nextId = 0
    /\ lastDirect = NoDirect
    /\ setupRet = "none"
    /\ quitRet = "none"
    /\ atQuit = {}
    /\ purged = {}

(***************************************************************************)
(* How an operation ends in a context.  In the worker the operation was    *)
(* called from the try block of _analyse: its value is returned to run, an *)
(* exception is printed and becomes None (librelay.py:193-199).  In the    *)
(* caller the value or the exception goes to the client code.              *)
(***************************************************************************)
Finish(ctx, val, ops) ==
    IF ctx = "worker"
    THEN /\ pc' = [pc EXCEPT !.worker = "put"]
         /\ wres' = IF val = Raised THEN None ELSE val
         /\ cur' = [cur EXCEPT !.worker.ops = ops]
         /\ UNCHANGED <<lastDirect, quitRet>>
    ELSE /\ pc' = [pc EXCEPT !.caller = "idle"]
         /\ cur' = [cur EXCEPT !.caller = Idle]
         /\ IF cur.caller.op.kind = "quit"
            THEN /\ quitRet' = IF val = Raised THEN "raised" ELSE "returned"
                 /\ UNCHANGED lastDirect
            ELSE /\ lastDirect' = [name |-> cur.caller.op.kind,
                                   ops |-> ops, ret |-> val]
                 /\ UNCHANGED quitRet
         /\ UNCHANGED wres

(***************************************************************************)
(* The serial exchange of version(), status() and of the closures made by  *)
(* __make_command_fct: write, time.sleep(0.1), read.  On None the          *)
(* attribute access raises AttributeError, on a closed port pyserial       *)
(* raises PortNotOpenError, on an open port the call may raise             *)
(* SerialException.                                                        *)
(***************************************************************************)
\* to_write = struct.pack('!B', value); self._filedesc.write(to_write)
Write(ctx) ==
    /\ pc[ctx] = "write"
    /\ \/ /\ filedesc = "open"
          /\ \E r \in WriteResults :
                cur' = [cur EXCEPT
                           ![ctx].ops =
                               Append(@, WriteEv(Pack(cur[ctx].op.byte), r)),
                           ![ctx].wret = IntVal(r)]
          /\ pc' = [pc EXCEPT ![ctx] = "sleep"]
          /\ written' = IF ctx = "worker" THEN Append(written, wcmd.id)
                        ELSE written
          /\ UNCHANGED <<wres, lastDirect, quitRet>>
       \/ /\ Finish(ctx, Raised, cur[ctx].ops)
          /\ UNCHANGED written
    /\ UNCHANGED <<running, filedesc, inq, outq, lastOut, wcmd, taken,
                   nextId, setupRet, atQuit, purged, frames>>

\* time.sleep(0.1) ends; then `return res` (closures) or
\* res = self._filedesc.read(size=n); return res (version, status)
SettleRead(ctx) ==
    /\ pc[ctx] = "sleep"
    /\ IF cur[ctx].op.readn = 0
       THEN Finish(ctx, cur[ctx].wret, cur[ctx].ops)
       ELSE \/ /\ filedesc = "open"
               /\ \E data \in ReadData(cur[ctx].op.readn) :
                     Finish(ctx, BytesVal(data),
                            Append(cur[ctx].ops,
                                   ReadEv(cur[ctx].op.readn, data)))
            \/ Finish(ctx, Raised, cur[ctx].ops)
    /\ UNCHANGED <<running, filedesc, inq, outq, lastOut, wcmd, taken,
                   written, nextId, setupRet, atQuit, purged, frames>>

\* queue.Queue.get on a non-empty queue: the oldest item, and what stays
\* queued.
QueueGet(q) == [item |-> Head(q), rest |-> Tail(q)]

(***************************************************************************)
(* quit (librelay.py:122-129) after `self._running = False`, and           *)
(* __clear_queue (109-120): one step per access to the queue or the port.  *)
(***************************************************************************)
\* while not q.empty():
ClearTest(ctx) ==
    /\ pc[ctx] = "q_empty"
    /\ pc' = [pc EXCEPT ![ctx] = IF inq = <<>> THEN "q_close" ELSE "q_get"]
    /\ UNCHANGED <<running, filedesc, inq, outq, lastOut, cur, wcmd, wres,
                   taken, written, nextId, lastDirect, setupRet, quitRet,
                   atQuit, purged, frames>>

\* q.get(block=False); q.task_done().  On queue.Empty the handler evaluates
\* the undefined name `logger`: NameError leaves __clear_queue and quit.
ClearGet(ctx) ==
    /\ pc[ctx] = "q_get"
    /\ IF inq = <<>>
       THEN /\ Finish(ctx, Raised, <<>>)
            /\ UNCHANGED <<inq, purged>>
       ELSE /\ inq' = QueueGet(inq).rest
            /\ purged' = purged \cup {QueueGet(inq).item}
            /\ pc' = [pc EXCEPT ![ctx] = "q_empty"]
            /\ UNCHANGED <<cur, wres, lastDirect, quitRet>>
    /\ UNCHANGED <<running, filedesc, outq, lastOut, wcmd, taken, written,
                   nextId, setupRet, atQuit, frames>>

\* self._filedesc.close(): AttributeError on None.
QuitClose(ctx) ==
    /\ pc[ctx] = "q_close"
    /\ IF filedesc = "none"
       THEN /\ Finish(ctx, Raised, <<>>)
            /\ UNCHANGED filedesc
       ELSE /\ filedesc' = "closed"
            /\ Finish(ctx, None, <<>>)
    /\ UNCHANGED <<running, inq, outq, lastOut, wcmd, taken, written,
                   nextId, setupRet, atQuit, purged, frames>>

(***************************************************************************)
(* _analyse (librelay.py:175-199) up to the call of the resolved           *)
(* attribute.  out = "return": returns None without calling anything;      *)
(* out = "raise": an exception leaves _analyse (the two tests on           *)
(* command["action"] are outside the try); out = "call": op is called.     *)
(***************************************************************************)
\* _analyse reading command["action"] without the `in` test: KeyError
AnalyseMissingKeyRaises(command) ==
    IF command.action.t # "str"
    THEN [out |-> "raise", op |-> NoOp]
    ELSE IF /\ ~Contains("SET_STATE", command.action.v)
            /\ ~Contains("QUERY", command.action.v)
    THEN [out |-> "return", op |-> NoOp]
    ELSE IF command.content.t = "missing"
    THEN [out |-> "return", op |-> NoOp]
    ELSE LET op == GetAttr(Lower(command.content.s))
         IN  IF op = NoOp
             THEN [out |-> "return", op |-> NoOp]
             ELSE [out |-> "call", op |-> op]

\* _analyse with the content checked against the enum its action names
AnalyseChecked(command) ==
    IF command.action.t = "missing"
    THEN [out |-> "return", op |-> NoOp]
    ELSE IF command.action.t # "str"
    THEN [out |-> "raise", op |-> NoOp]
    ELSE IF /\ ~Contains("SET_STATE", command.action.v)
            /\ ~Contains("QUERY", command.action.v)
    THEN [out |-> "return", op |-> NoOp]
    ELSE IF command.content.t = "missing"
    THEN [out |-> "return", op |-> NoOp]
    ELSE LET op == GetAttr(Lower(command.content.s))
             names == IF Contains("QUERY", command.action.v)
                      THEN QueryNames ELSE StateNames
         IN  IF op = NoOp \/ command.content.s \notin names
             THEN [out |-> "return", op |-> NoOp]
             ELSE [out |-> "call", op |-> op]

Analyse(command) ==
    IF command.action.t = "missing"
    THEN [out |-> "return", op |-> NoOp]
    ELSE IF command.action.t # "str"
    THEN [out |-> "raise", op |-> NoOp]
    ELSE IF /\ ~Contains("SET_STATE", command.action.v)
            /\ ~Contains("QUERY", command.action.v)
    THEN [out |-> "return", op |-> NoOp]
    ELSE IF command.content.t = "missing"
    THEN [out |-> "return", op |-> NoOp]
    ELSE LET op == GetAttr(Lower(command.content.s))
         IN  IF op = NoOp
             THEN [out |-> "return", op |-> NoOp]
             ELSE [out |-> "call", op |-> op]

(***************************************************************************)
(* run (librelay.py:202-211).                                              *)
(***************************************************************************)
\* while self._running: when the flag is down the loop ends.  If this run
\* was called by _analyse for a command (content "RUN"), the call returns
\* None to the try block of the enclosing _analyse, whose run puts it.
RunTest ==
    /\ pc.worker = "check"
    /\ IF running
       THEN /\ pc' = [pc EXCEPT !.worker = "get"]
            /\ UNCHANGED <<cur, wcmd, wres, frames>>
       ELSE IF frames = <<>>
       THEN /\ pc' = [pc EXCEPT !.worker = "done"]
            /\ UNCHANGED <<cur, wcmd, wres, frames>>
       ELSE /\ pc' = [pc EXCEPT !.worker = "put"]
            /\ wcmd' = frames[Len(frames)]
            /\ wres' = None
            /\ cur' = [cur EXCEPT !.worker = [Idle EXCEPT !.op = RunOp]]
            /\ frames' = SubSeq(frames, 1, Len(frames) - 1)
    /\ UNCHANGED <<running, filedesc, inq, outq, lastOut, taken, written,
                   nextId, lastDirect, setupRet, quitRet, atQuit, purged>>

\* command = self._input_queue.get() (blocks while the queue is empty), then
\* res = self._analyse(command) up to the first access to shared state by
\* the called operation.  An exception that leaves _analyse leaves run: the
\* thread ends, unless this run was called by an enclosing _analyse, whose
\* try block catches it.  Thread.start on the started thread raises
\* RuntimeError; run is entered at its loop test.
RunGet ==
    /\ pc.worker = "get"
    /\ inq # <<>>
    /\ inq' = QueueGet(inq).rest
    /\ taken' = Append(taken, QueueGet(inq).item)
    /\ \E d \in Descrs :
          LET command == [id |-> QueueGet(inq).item, action |-> d.action,
                          content |-> d.content]
              a == Analyse(command)
              caught == a.out = "raise" /\ frames # <<>>
          IN  /\ wcmd' = IF caught THEN frames[Len(frames)] ELSE command
              /\ frames' =
                    IF caught THEN SubSeq(frames, 1, Len(frames) - 1)
                    ELSE IF a.op.kind = "run" THEN Append(frames, command)
                    ELSE frames
              /\ cur' = [cur EXCEPT !.worker =
                            [Idle EXCEPT !.op = IF caught THEN RunOp ELSE a.op]]
              /\ pc' = [pc EXCEPT !.worker =
                           CASE caught -> "put"
                             [] a.out = "raise" -> "crashed"
                             [] a.out = "return" -> "put"
                             [] a.op.kind = "start" -> "put"
                             [] a.op.kind = "run" -> "check"
                             [] a.op.kind = "quit" -> "q_empty"
                             [] OTHER -> "write"]
              /\ wres' = IF caught \/ a.out = "return" \/ a.op.kind = "start"
                         THEN None ELSE wres
              /\ running' = IF a.out = "call" /\ a.op.kind = "quit"
                            THEN FALSE ELSE running
    /\ UNCHANGED <<filedesc, outq, lastOut, written, nextId, lastDirect,
                   setupRet, quitRet, atQuit, purged>>

\* a loop that puts a result only when there is one
RunPutSkipNone ==
    /\ pc.worker = "put"
    /\ outq' = IF wres = None THEN outq ELSE Append(outq, wcmd.id)
    /\ lastOut' = IF wres = None THEN lastOut
                  ELSE [cmd |-> wcmd, val |-> wres, ops |-> cur.worker.ops]
    /\ pc' = [pc EXCEPT !.worker = "check"]
    /\ cur' = [cur EXCEPT !.worker = Idle]
    /\ UNCHANGED <<running, filedesc, inq, wcmd, wres, taken, written,
                   nextId, lastDirect, setupRet, quitRet, atQuit, purged,
                   frames>>

\* self._output_queue.put(res)
RunPut ==
    /\ pc.worker = "put"
    /\ outq' = Append(outq, wcmd.id)
    /\ lastOut' = [cmd |-> wcmd, val |-> wres, ops |-> cur.worker.ops]
    /\ pc' = [pc EXCEPT !.worker = "check"]
    /\ cur' = [cur EXCEPT !.worker = Idle]
    /\ UNCHANGED <<running, filedesc, inq, wcmd, wres, taken, written,
                   nextId, lastDirect, setupRet, quitRet, atQuit, purged,
                   frames>>

(***************************************************************************)
(* Calls made by the client thread.                                        *)
(***************************************************************************)
\* setup (librelay.py:87-107): serial.Serial(...) opens the port and setup
\* returns True, or it raises and setup returns False
Setup ==
    /\ pc.caller = "idle"
    /\ setupRet = "none"
    /\ \E ok \in BOOLEAN :
          /\ filedesc' = IF ok THEN "open" ELSE filedesc
          /\ setupRet' = IF ok THEN "true" ELSE "false"
    /\ UNCHANGED <<running, inq, outq, lastOut, pc, cur, wcmd, wres, taken,
                   written, nextId, lastDirect, quitRet, atQuit, purged,
                   frames>>

\* Thread.start(): run begins in the worker thread
Start ==
    /\ pc.caller = "idle"
    /\ pc.worker = "new"
    /\ pc' = [pc EXCEPT !.worker = "check"]
    /\ UNCHANGED <<running, filedesc, inq, outq, lastOut, cur, wcmd, wres,
                   taken, written, nextId, lastDirect, setupRet, quitRet,
                   atQuit, purged, frames>>

\* the client calls quit(): self._running = False
CallQuit ==
    /\ pc.caller = "idle"
    /\ quitRet = "none"
    /\ running' = FALSE
    /\ pc' = [pc EXCEPT !.caller = "q_empty"]
    /\ cur' = [cur EXCEPT !.caller = [Idle EXCEPT !.op = QuitOp]]
    /\ quitRet' = "running"
    /\ atQuit' = {inq[i] : i \in 1..Len(inq)}
    /\ lastDirect' = NoDirect
    /\ UNCHANGED <<filedesc, inq, outq, lastOut, wcmd, wres, taken, written,
                   nextId, setupRet, purged, frames>>

\* the client calls version() or status() itself (librelay.py:131-151)
CallDirect ==
    /\ pc.caller = "idle"
    /\ \E op \in {VersionOp, StatusOp} :
          cur' = [cur EXCEPT !.caller = [Idle EXCEPT !.op = op]]
    /\ pc' = [pc EXCEPT !.caller = "write"]
    /\ lastDirect' = NoDirect
    /\ UNCHANGED <<running, filedesc, inq, outq, lastOut, wcmd, wres, taken,
                   written, nextId, setupRet, quitRet, atQuit, purged,
                   frames>>

\* a producer puts a descriptor on the input queue
Put ==
    /\ nextId < MaxCmds
    /\ inq' = Append(inq, nextId + 1)
    /\ nextId' = nextId + 1
    /\ UNCHANGED <<running, filedesc, outq, lastOut, pc, cur, wcmd, wres,
                   taken, written, lastDirect, setupRet, quitRet, atQuit,
                   purged, frames>>

Next ==
    \/ Setup
    \/ Start
    \/ CallQuit
    \/ CallDirect
    \/ Put
    \/ RunTest
    \/ RunGet
    \/ RunPut
    \/ \E ctx \in Ctx : Write(ctx)
    \/ \E ctx \in Ctx : SettleRead(ctx)
    \/ \E ctx \in Ctx : ClearTest(ctx)
    \/ \E ctx \in Ctx : ClearGet(ctx)
    \/ \E ctx \in Ctx : QuitClose(ctx)

Spec == Init /\ [][Next]_vars

(***************************************************************************)
(* Scheduling.  The worker thread and a client call that is under way are  *)
(* threads of the interpreter: each gets to run while it has a step to     *)
(* take, and the calls on the port return or raise.  A blocked get() has   *)
(* no step to take while the queue is empty.  Nothing obliges the client   *)
(* to call setup, start, quit, version or status, nor a producer to put a  *)
(* command.                                                                *)
(***************************************************************************)
FairSpec ==
    /\ Spec
    /\ WF_vars(RunTest)
    /\ WF_vars(RunGet)
    /\ WF_vars(RunPut)
    /\ \A ctx \in Ctx :
          /\ WF_vars(Write(ctx))
          /\ WF_vars(SettleRead(ctx))
          /\ WF_vars(ClearTest(ctx))
          /\ WF_vars(ClearGet(ctx))
          /\ WF_vars(QuitClose(ctx))

(***************************************************************************)
(* Vocabulary of the properties.                                           *)
(***************************************************************************)
Range(q) == {q[i] : i \in 1..Len(q)}
StrictlyIncreasing(q) == \A i, j \in 1..Len(q) : i < j => q[i] < q[j]

\* The wire table of the protocol, as the specification documents it.
ProtocolTable ==
    [ALL_ON |-> 100, ALL_OFF |-> 110, ONE_ON |-> 101, ONE_OFF |-> 111,
     TWO_ON |-> 102, TWO_OFF |-> 112, VERSION |-> 90, STATUS |-> 91]
StateSymbols == {"ALL_ON", "ALL_OFF", "ONE_ON", "ONE_OFF", "TWO_ON", "TWO_OFF"}
QuerySymbols == {"VERSION", "STATUS"}

\* the action is by name exactly SET_STATE or exactly QUERY
ExactAction(cmd) ==
    cmd.action \in {StrAct(<<"SET_STATE">>), StrAct(<<"QUERY">>)}

\* an exchange is between its write and the end of its settle delay or read
InExchange(ctx) == pc[ctx] = "sleep"

\* the value an exchange hands back, read off the calls it made on the port
ResultOf(op, ops) ==
    IF op.kind \in {"version", "status"}
    THEN IF Len(ops) = 2 THEN BytesVal(ops[2].ret) ELSE None
    ELSE IF op.kind = "state"
    THEN IF Len(ops) = 1 THEN IntVal(ops[1].ret[1]) ELSE None
    ELSE None

(***************************************************************************)
(* C1: the worker takes the queued commands, writes them to the port and   *)
(* puts their results on the output queue in the order of their puts on    *)
(* the input queue (ids are given in put order, so: in increasing id).     *)
(***************************************************************************)
C1_DispatchOrder ==
    /\ StrictlyIncreasing(taken)
    /\ StrictlyIncreasing(written)
    /\ StrictlyIncreasing(outq)
    /\ Range(written) \subseteq Range(taken)
    /\ Range(outq) \subseteq Range(taken)

(***************************************************************************)
(* C2: the N-th put on the output queue is the result of the N-th command  *)
(* taken from the input queue; the puts never outnumber the gets and lag   *)
(* them by at most one, whether the commands are valid, rejected or fail.  *)
(***************************************************************************)
C2_NthOutput ==
    /\ Len(outq) <= Len(taken)
    /\ Len(taken) <= Len(outq) + 1
    /\ outq = SubSeq(taken, 1, Len(outq))
    /\ lastOut # NoOut =>
          /\ lastOut.cmd.id = outq[Len(outq)]
          /\ lastOut.val = ResultOf(Analyse(lastOut.cmd).op, lastOut.ops)

(***************************************************************************)
(* C3: one write+settle+read cycle per dispatched command, and never two   *)
(* exchanges on the port at the same time, the client's direct version()   *)
(* and status() calls included.                                            *)
(***************************************************************************)
C3_NoOverlap ==
    /\ ~(InExchange("worker") /\ InExchange("caller"))
    /\ Len(lastOut.ops) <= 2

(***************************************************************************)
(* C4 as the specification states it: a descriptor without the action key, *)
(* or whose action is not SET_STATE or QUERY, causes no put on the output  *)
(* queue.                                                                  *)
(***************************************************************************)
C4_NoPutForRejected ==
    lastOut # NoOut => ExactAction(lastOut.cmd)

\* the action key is absent, or is a str that contains neither name
RejectedByAction(cmd) ==
    \/ cmd.action.t = "missing"
    \/ /\ cmd.action.t = "str"
       /\ ~Contains("SET_STATE", cmd.action.v)
       /\ ~Contains("QUERY", cmd.action.v)

(***************************************************************************)
(* C4, amended: a descriptor without the action key, or whose action is a  *)
(* string containing neither SET_STATE nor QUERY, causes no access to the  *)
(* port and exactly one put, of None, on the output queue; the worker then *)
(* goes back to its loop test.                                             *)
(***************************************************************************)
C4_RejectedPutsNone ==
    /\ (lastOut # NoOut /\ RejectedByAction(lastOut.cmd)) =>
          /\ lastOut.val = None
          /\ lastOut.ops = <<>>
    /\ (wcmd # NoCmd /\ RejectedByAction(wcmd)) =>
          /\ pc.worker \in {"put", "check", "get", "done"}
          /\ wcmd.id \notin Range(written)
          /\ cur.worker.ops = <<>>
          /\ pc.worker = "put" => wres = None /\ wcmd.id \notin Range(outq)
          /\ pc.worker # "put" => lastOut.cmd = wcmd
          /\ pc.worker = "done" => ~running

\* None was put for a rejected descriptor and the worker is in the exchange
\* of a command queued after it
C4_Witness ==
    /\ lastOut # NoOut
    /\ RejectedByAction(lastOut.cmd)
    /\ lastOut.val = None
    /\ InExchange("worker")
    /\ wcmd.id > lastOut.cmd.id

(***************************************************************************)
(* C5: no exception leaves the worker loop, whatever descriptor is taken   *)
(* from the input queue: the worker thread is never ended by a command.    *)
(***************************************************************************)
C5_NoEscape == pc.worker # "crashed"

(***************************************************************************)
(* C6: when quit() returns the port is closed, and no command that was on  *)
(* the input queue when quit() was called is ever written to the port or   *)
(* answered on the output queue.                                           *)
(***************************************************************************)
C6_QuitDiscards ==
    [][quitRet' = "returned" =>
          /\ quitRet = "running" => filedesc' = "closed"
          /\ \A i \in atQuit' :
                i \notin Range(written') /\ i \notin Range(outq')]_vars

(***************************************************************************)
(* C7: a setup() that fails returns False and leaves no port open, and     *)
(* from then on the worker loop takes no command from the input queue.     *)
(***************************************************************************)
C7_NoRunAfterFailedSetup ==
    [][setupRet = "false" => (filedesc # "open" /\ taken' = taken)]_vars

\* The calls a query makes on the port, and what it hands back: nothing
\* and a failure; one write of `byte` and a failure; or one write of `byte`,
\* one read of size n, and the n bytes read.
QueryShape(byte, n, ops, ret, failure) ==
    \/ ops = <<>> /\ ret = failure
    \/ /\ Len(ops) = 1
       /\ ops[1].op = "write" /\ ops[1].arg = <<byte>>
       /\ ret = failure
    \/ /\ Len(ops) = 2
       /\ ops[1].op = "write" /\ ops[1].arg = <<byte>>
       /\ ops[2].op = "read" /\ ops[2].arg = <<n>>
       /\ Len(ops[2].ret) = n
       /\ ret = BytesVal(ops[2].ret)

QueuedQuery(sym) ==
    /\ lastOut # NoOut
    /\ ExactAction(lastOut.cmd)
    /\ lastOut.cmd.content = StrContent(sym)

(***************************************************************************)
(* C8: a version query makes one write of the byte 90 and, after the       *)
(* settle delay, one read of 2 bytes; a status query one write of the byte *)
(* 91 and one read of 1 byte; the bytes read are what the call returns     *)
(* and, for a queued query, what is put on the output queue.               *)
(***************************************************************************)
C8_QueryExchange ==
    /\ lastDirect.name = "version" =>
          QueryShape(90, 2, lastDirect.ops, lastDirect.ret, Raised)
    /\ lastDirect.name = "status" =>
          QueryShape(91, 1, lastDirect.ops, lastDirect.ret, Raised)
    /\ QueuedQuery("VERSION") =>
          QueryShape(90, 2, lastOut.ops, lastOut.val, None)
    /\ QueuedQuery("STATUS") =>
          QueryShape(91, 1, lastOut.ops, lastOut.val, None)
    /\ \A ctx \in Ctx :
          (InExchange(ctx) /\ cur[ctx].op.kind \in {"version", "status"}) =>
              /\ Len(cur[ctx].ops) = 1
              /\ cur[ctx].ops[1].op = "write"
              /\ cur[ctx].ops[1].arg =
                    <<IF cur[ctx].op.kind = "version" THEN 90 ELSE 91>>

\* a queued version query was answered with the 2 bytes read, and a direct
\* status() call returned the byte read
C8_Witness ==
    /\ QueuedQuery("VERSION")
    /\ lastOut.val.k = "bytes"
    /\ lastDirect.name = "status"
    /\ lastDirect.ret.k = "bytes"

SetStateCmd(cmd) ==
    /\ cmd.action = StrAct(<<"SET_STATE">>)
    /\ cmd.content.t = "str"
    /\ cmd.content.s \in StateSymbols

(***************************************************************************)
(* C9: dispatching {SET_STATE, S} for a state symbol S makes one write of  *)
(* the one byte assigned to S and no read, and puts the value the write    *)
(* returned on the output queue (None when the write raised).              *)
(***************************************************************************)
C9_SetState ==
    /\ (lastOut # NoOut /\ SetStateCmd(lastOut.cmd)) =>
          \/ lastOut.ops = <<>> /\ lastOut.val = None
          \/ /\ Len(lastOut.ops) = 1
             /\ lastOut.ops[1].op = "write"
             /\ lastOut.ops[1].arg = <<ProtocolTable[lastOut.cmd.content.s]>>
             /\ lastOut.val = IntVal(lastOut.ops[1].ret[1])
    /\ (InExchange("worker") /\ SetStateCmd(wcmd)) =>
          /\ Len(cur.worker.ops) = 1
          /\ cur.worker.ops[1].op = "write"
          /\ cur.worker.ops[1].arg = <<ProtocolTable[wcmd.content.s]>>

\* ALL_ON was answered with the value of its write, and the worker has
\* written the byte of TWO_OFF
C9_Witness ==
    /\ lastOut.cmd.action = StrAct(<<"SET_STATE">>)
    /\ lastOut.cmd.content = StrContent("ALL_ON")
    /\ lastOut.ops = <<WriteEv(<<100>>, 1)>>
    /\ lastOut.val = IntVal(1)
    /\ InExchange("worker")
    /\ wcmd.content = StrContent("TWO_OFF")

\* The payloads written to the port that the state still shows, each with
\* the symbol it was written for.
ShownWrites ==
    {[sym |-> lastOut.cmd.content.s, arg |-> lastOut.ops[1].arg] :
        x \in IF lastOut.ops # <<>> THEN {1} ELSE {}}
    \cup {[sym |-> wcmd.content.s, arg |-> cur.worker.ops[1].arg] :
        x \in IF cur.worker.ops # <<>> THEN {1} ELSE {}}
    \cup {[sym |-> IF cur.caller.op.kind = "version" THEN "VERSION"
                   ELSE "STATUS",
           arg |-> cur.caller.ops[1].arg] :
        x \in IF cur.caller.ops # <<>> THEN {1} ELSE {}}
    \cup {[sym |-> IF lastDirect.name = "version" THEN "VERSION"
                   ELSE "STATUS",
           arg |-> lastDirect.ops[1].arg] :
        x \in IF lastDirect.ops # <<>> THEN {1} ELSE {}}

(***************************************************************************)
(* C10: every one of the eight symbols is encoded, as the single byte the  *)
(* protocol table gives it (state symbols in 100..112, query symbols in    *)
(* 90..91), and no two symbols are written as the same byte.               *)
(***************************************************************************)
C10_Encoding ==
    /\ \A w \in ShownWrites :
          /\ w.sym \in DOMAIN ProtocolTable
          /\ w.arg = <<ProtocolTable[w.sym]>>
          /\ w.sym \in StateSymbols => w.arg[1] \in 100..112
          /\ w.sym \in QuerySymbols => w.arg[1] \in 90..91
    /\ \A w1, w2 \in ShownWrites : w1.arg = w2.arg => w1.sym = w2.sym
    /\ (/\ pc.worker \in {"write", "sleep", "put"}
        /\ ExactAction(wcmd)
        /\ wcmd.content.t = "str"
        /\ wcmd.content.s \in DOMAIN ProtocolTable) =>
          cur.worker.op.kind \in {"state", "version", "status"}

\* three different symbols have been written as three different bytes
C10_Witness ==
    /\ lastOut.cmd.content = StrContent("ONE_ON")
    /\ lastOut.ops # <<>>
    /\ wcmd.content = StrContent("ALL_OFF")
    /\ InExchange("worker")
    /\ InExchange("caller")
    /\ cur.caller.op.kind = "status"
    /\ Cardinality(ShownWrites) = 3

(***************************************************************************)
(* C11: only the worker uses the port: the client's context never writes   *)
(* to it, reads from it or closes it, whichever of version(), status() and *)
(* quit() it calls.                                                        *)
(***************************************************************************)
C11_WorkerOnlyTransport ==
    /\ cur.caller.ops = <<>>
    /\ lastDirect.ops = <<>>
    /\ quitRet # "returned"

(***************************************************************************)
(* C12: the exchange of a command the worker is dispatching is never       *)
(* interrupted by quit(): the port is never closed while the worker is     *)
(* between its write and the end of its settle delay or read.              *)
(***************************************************************************)
C12_NoInterrupt == ~(InExchange("worker") /\ filedesc = "closed")

(***************************************************************************)
(* C13: Closed is terminal: once the port has been closed it stays closed, *)
(* and the worker takes no further command from the input queue.           *)
(***************************************************************************)
C13_ClosedTerminal ==
    [][filedesc = "closed" => (filedesc' = "closed" /\ taken' = taken)]_vars

\* the action passes the two tests of _analyse
AcceptedAction(cmd) == cmd.action.t = "str" /\ ~RejectedByAction(cmd)

\* the content names nothing the instance has
Unresolved(cmd) ==
    \/ cmd.content.t = "missing"
    \/ Lower(cmd.content.s) \notin
          {"all_on", "all_off", "one_on", "one_off", "two_on", "two_off",
           "version", "status", "quit", "run", "start"}

\* the content names a protocol symbol and the calls made on the port stop
\* short of its exchange: the write or the read raised
ExchangeRaised(cmd, ops) ==
    /\ cmd.content.t = "str"
    /\ cmd.content.s \in DOMAIN ProtocolTable
    /\ Len(ops) < (IF cmd.content.s \in QuerySymbols THEN 2 ELSE 1)

FailedDispatch(cmd, ops) ==
    AcceptedAction(cmd) /\ (Unresolved(cmd) \/ ExchangeRaised(cmd, ops))

(***************************************************************************)
(* C14: a command with an accepted action whose content does not resolve,  *)
(* or whose operation raises on the write or the read, is answered by      *)
(* nothing: no value is put on the output queue for it.                    *)
(***************************************************************************)
C14_NoPutForFailed ==
    lastOut # NoOut => ~FailedDispatch(lastOut.cmd, lastOut.ops)

(***************************************************************************)
(* C14, amended: such a command is answered by exactly one put, of None,   *)
(* on the output queue, and the worker then goes back to its loop test: it *)
(* is not ended by the failure.                                            *)
(***************************************************************************)
C14_FailedPutsNone ==
    /\ (lastOut # NoOut /\ FailedDispatch(lastOut.cmd, lastOut.ops)) =>
          lastOut.val = None
    /\ \A i, j \in 1..Len(outq) : outq[i] = outq[j] => i = j
    /\ (wcmd # NoCmd /\ AcceptedAction(wcmd) /\ Unresolved(wcmd)) =>
          /\ pc.worker \in {"put", "check", "get", "done"}
          /\ cur.worker.ops = <<>>
    /\ (/\ wcmd # NoCmd
        /\ pc.worker \in {"put", "check", "get", "done"}
        /\ FailedDispatch(wcmd, IF pc.worker = "put" THEN cur.worker.ops
                                ELSE lastOut.ops)) =>
          /\ pc.worker = "put" => wres = None /\ wcmd.id \notin Range(outq)
          /\ pc.worker # "put" => lastOut.cmd = wcmd /\ lastOut.val = None
          /\ pc.worker = "done" => ~running

\* None was put for a version query whose read raised after its write, and
\* the worker is in the exchange of a command queued after it
C14_Witness ==
    /\ lastOut # NoOut
    /\ ExactAction(lastOut.cmd)
    /\ lastOut.cmd.content = StrContent("VERSION")
    /\ Len(lastOut.ops) = 1
    /\ lastOut.val = None
    /\ InExchange("worker")
    /\ wcmd.id > lastOut.cmd.id

(***************************************************************************)
(* C15: the content of a command resolves to one of the eight protocol     *)
(* operations or to nothing: the worker never calls another attribute of   *)
(* the dispatcher (quit, run, start) for a command, so dispatching a       *)
(* command never lowers the stop flag, purges the queue or closes the port.*)
(***************************************************************************)
C15_OnlyProtocolOps ==
    /\ cur.worker.op.kind \in {"none", "state", "version", "status"}
    /\ pc.worker \notin {"q_empty", "q_get", "q_close"}
    /\ frames = <<>>

(***************************************************************************)
(* C16: a command is written to the port only if its action is by name     *)
(* exactly SET_STATE or exactly QUERY.                                     *)
(***************************************************************************)
C16_ExactActionOnly ==
    (wcmd # NoCmd /\ wcmd.id \in Range(written)) => ExactAction(wcmd)

\* the content is a symbol of the other enum than the one the action names
CrossCmd(cmd) ==
    /\ cmd.content.t = "str"
    /\ \/ /\ cmd.action = StrAct(<<"QUERY">>)
          /\ cmd.content.s \in StateSymbols
       \/ /\ cmd.action = StrAct(<<"SET_STATE">>)
          /\ cmd.content.s \in QuerySymbols

(***************************************************************************)
(* C17: a QUERY command carrying a relay-state symbol, or a SET_STATE      *)
(* command carrying a query symbol, is never written to the port.          *)
(***************************************************************************)
C17_ContentMatchesAction ==
    (wcmd # NoCmd /\ CrossCmd(wcmd)) => wcmd.id \notin Range(written)

(***************************************************************************)
(* C17, amended: the action only opens the gate and the content alone      *)
(* selects the operation: a QUERY command carrying a relay-state symbol    *)
(* makes the one write of that symbol's byte and is answered with what the *)
(* write returned; a SET_STATE command carrying a query symbol runs that   *)
(* query's write and read and is answered with the bytes read (None when   *)
(* the write or the read raised).                                          *)
(***************************************************************************)
C17_ContentSelects ==
    /\ (wcmd # NoCmd /\ CrossCmd(wcmd)) =>
          /\ pc.worker \in {"write", "sleep", "put", "check", "get", "done"}
          /\ pc.worker \in {"write", "sleep", "put"} =>
                /\ cur.worker.op.kind \in {"state", "version", "status"}
                /\ cur.worker.op.byte = ProtocolTable[wcmd.content.s]
          /\ InExchange("worker") =>
                /\ Len(cur.worker.ops) = 1
                /\ cur.worker.ops[1].op = "write"
                /\ cur.worker.ops[1].arg = <<ProtocolTable[wcmd.content.s]>>
                /\ wcmd.id \in Range(written)
    /\ (lastOut # NoOut /\ CrossCmd(lastOut.cmd)) =>
          LET sym == lastOut.cmd.content.s
          IN  IF sym \in QuerySymbols
              THEN QueryShape(ProtocolTable[sym],
                              IF sym = "VERSION" THEN 2 ELSE 1,
                              lastOut.ops, lastOut.val, None)
              ELSE \/ lastOut.ops = <<>> /\ lastOut.val = None
                   \/ /\ Len(lastOut.ops) = 1
                      /\ lastOut.ops[1].op = "write"
                      /\ lastOut.ops[1].arg = <<ProtocolTable[sym]>>
                      /\ lastOut.val = IntVal(lastOut.ops[1].ret[1])

\* {QUERY, ALL_OFF} wrote the byte 110 and was answered with the value of
\* the write, and the worker has written the byte of {SET_STATE, STATUS}
C17_Witness ==
    /\ lastOut.cmd.action = StrAct(<<"QUERY">>)
    /\ lastOut.cmd.content = StrContent("ALL_OFF")
    /\ lastOut.ops = <<WriteEv(<<110>>, 1)>>
    /\ lastOut.val = IntVal(1)
    /\ InExchange("worker")
    /\ wcmd.action = StrAct(<<"SET_STATE">>)
    /\ wcmd.content = StrContent("STATUS")

(***************************************************************************)
(* C19: the purge of quit() never raises: when the client's non-blocking   *)
(* get ends, the purge goes back to its test of the queue, also when the   *)
(* worker emptied the queue between the test and the get.                  *)
(***************************************************************************)
C19_PurgeNeverRaises ==
    [][(pc.caller = "q_get" /\ pc'.caller # "q_get") =>
          pc'.caller = "q_empty"]_vars

(***************************************************************************)
(* C18: once the client has called quit() on a started dispatcher, the     *)
(* worker eventually leaves its loop: its thread ends, also when the input *)
(* queue is empty at the call and nothing is put on it afterwards.         *)
(***************************************************************************)
C18_WorkerTerminates ==
    (quitRet # "none" /\ pc.worker # "new") ~>
        pc.worker \in {"done", "crashed"}

(***************************************************************************)
(* C20: while the worker is started and the stop flag is up, every command *)
(* on the input queue is eventually taken and answered by a value on the   *)
(* output queue (unless a stop is requested first).                        *)
(***************************************************************************)
C20_EveryCommandAnswered ==
    \A i \in 1..MaxCmds :
        (i \in Range(inq) /\ pc.worker # "new" /\ running) ~>
            (i \in Range(outq) \/ ~running)

====
